---- MODULE Spec2Model ----
(***************************************************************************)
(* Model of the traefik-rybbit-feeder middleware (umami.go,                *)
(* umami_worker.go, responsewriter.go): the connection/retry supervisor,   *)
(* the bounded event queue, the batching worker and the request path.      *)
(* Durations are in seconds.                                               *)
(***************************************************************************)
EXTENDS Integers, Sequences, FiniteSets, TLC

\* ---------------------------------------------------------------- bounds
MaxQueue == 2        \* the largest Config.QueueSize
MaxBatch == 2        \* the largest Config.BatchSize
MaxReq == 2          \* concurrent requests handled by ServeHTTP
MaxWrites == 3       \* WriteHeader calls over all requests
MaxAttempts == 10    \* connection attempts of retryConnection

\* ------------------------------------------------------- program constants
maxRetryInterval == 3600
batchMaxWait == 1

\* ------------------------------------------------------------ value domains
Hosts == {"a.test", "x.test"}
\* The status codes on either side of the test of shouldTrackStatus.
StatusCodes == {399, 400}
AddrBits == 2
Addrs == 0..(2^AddrBits - 1)
NoIp == [kind |-> "none"]
BadIp == [kind |-> "bad"]
IpOf(a) == [kind |-> "ip", addr |-> a]
CidrOf(a, b) == [kind |-> "cidr", addr |-> a, bits |-> b]
URLs == {"/", "/health"}
GoodPattern == [ok |-> TRUE, matches |-> {"/health"}]
BadPattern == [ok |-> FALSE, matches |-> {}]
Exts == {"", ".html", ".js"}
Agents == {"Mozilla", "Googlebot"}

BaseConfig ==
    [Disabled |-> FALSE, QueueSize |-> 1, BatchSize |-> 1, BatchMaxWait |-> 5,
     Host |-> "http://rybbit", APIKey |-> "key", Websites |-> {"a.test"},
     TrackErrors |-> FALSE, TrackAllResources |-> FALSE, TrackExtensions |-> {},
     IgnoreUserAgents |-> {}, IgnoreURLs |-> <<>>, IgnoreIPs |-> <<>>]

\* The configurations the plugin is constructed with: the base configuration
\* with the smallest and the largest queue and batch size, and the base
\* configuration varied in one group of fields.
Configs ==
    {[BaseConfig EXCEPT !.QueueSize = q, !.BatchSize = b] :
        q \in {1, MaxQueue}, b \in {1, MaxBatch}}
    \cup {[BaseConfig EXCEPT !.Disabled = TRUE],
          [BaseConfig EXCEPT !.TrackErrors = TRUE],
          [BaseConfig EXCEPT !.IgnoreIPs = <<IpOf(1), CidrOf(2^(AddrBits - 1), 1)>>,
                             !.IgnoreURLs = <<GoodPattern>>,
                             !.IgnoreUserAgents = {"Googlebot"}],
          [BaseConfig EXCEPT !.Host = ""],
          [BaseConfig EXCEPT !.APIKey = ""],
          [BaseConfig EXCEPT !.Websites = {}],
          [BaseConfig EXCEPT !.IgnoreIPs = <<IpOf(1), BadIp>>],
          [BaseConfig EXCEPT !.IgnoreIPs = <<BadIp>>],
          [BaseConfig EXCEPT !.IgnoreURLs = <<GoodPattern, BadPattern>>]}

VARIABLES
    config,          \* the *Config handed to New
    isDisabled,      \* UmamiFeeder.isDisabled
    ignorePrefixes,  \* UmamiFeeder.ignorePrefixes
    ignoreRegexps,   \* UmamiFeeder.ignoreRegexps
    cancelled,       \* ctx.Done() is closed
    supPc,           \* position of the retryConnection goroutine: "none",
                     \* "select" (line 164), "connected" (line 170, connect
                     \* returned nil), "ready", "fatal" or "stopped"
    retryAttempt,    \* retryConnection's retryAttempt (0 once it has returned)
    currentDelay,    \* retryConnection's currentDelay (0 once it has returned)
    connected,       \* some connect() returned nil
    verified,        \* some verifyConfig() returned nil
    queue,           \* UmamiFeeder.queue (event ids, oldest first)
    nextId,          \* id of the next event accepted by the queue
    workerPc,        \* position of the startWorker goroutine
    batch,           \* umamiEventFeeder's batch
    timer,           \* umamiEventFeeder's timeout timer
    flushKind,       \* which branch called reportEventsToUmami
    flushIdx,        \* index into the batch of the event sent next
    flushes,         \* the calls of reportEventsToUmami: branch and batch
    sendLog,         \* <<id, outcome>> of every sendRequest to /api/track
    aborted,         \* event ids that followed a failed send in their batch
    faults,          \* panics recovered by umamiEventFeeder
    reqs,            \* per request: position and what the next handler saw
    totalWrites,     \* WriteHeader calls made so far
    lastCall,        \* the last WriteHeader call: code given, code forwarded,
                     \* and what became of the event
    lastRead         \* the rule sets read by the last call of shouldTrack
                     \* that let its request through

vars == <<config, isDisabled, ignorePrefixes, ignoreRegexps, cancelled, supPc,
          retryAttempt, currentDelay, connected, verified, queue,
          nextId, workerPc, batch, timer, flushKind, flushIdx, flushes, sendLog,
          aborted, faults, reqs, totalWrites, lastCall, lastRead>>

supVars == <<supPc, retryAttempt, currentDelay, connected, verified>>
ruleVars == <<ignorePrefixes, ignoreRegexps>>
workerVars == <<workerPc, batch, timer, flushKind, flushIdx, flushes, sendLog,
                aborted, faults>>
reqVars == <<reqs, totalWrites, lastCall, lastRead>>

\* ------------------------------------------------------------- supervisor

\* Delay with the ceiling applied one attempt late.
DelayLateCap(n) ==
    IF n = 0 THEN 0
    ELSE IF n <= 8 THEN 15 * 2^n
    ELSE maxRetryInterval

\* retryConnection, lines 153-158: the delay before attempt number n.
Delay(n) ==
    IF n = 0 THEN 0
    ELSE IF n < 8 THEN 15 * 2^n
    ELSE maxRetryInterval

\* netip.ParsePrefix(ignoreIp), then ParsePrefix(ignoreIp + "/32").
ParseIgnoreIp(s) ==
    IF s.kind = "cidr" /\ s.bits \in 0..AddrBits
      THEN [ok |-> TRUE, addr |-> s.addr, bits |-> s.bits]
    ELSE IF s.kind = "ip"
      THEN [ok |-> TRUE, addr |-> s.addr, bits |-> AddrBits]
    ELSE [ok |-> FALSE]

RECURSIVE VerifyIPs(_, _)
\* verifyConfig, lines 216-229: appends each parsed prefix, stops at the
\* first invalid entry and keeps what was appended before it.
VerifyIPs(ips, acc) ==
    IF ips = <<>> THEN [ok |-> TRUE, prefixes |-> acc]
    ELSE LET p == ParseIgnoreIp(Head(ips)) IN
         IF ~p.ok THEN [ok |-> FALSE, prefixes |-> acc]
         ELSE VerifyIPs(Tail(ips), Append(acc, [addr |-> p.addr, bits |-> p.bits]))

RECURSIVE VerifyURLs(_, _)
\* verifyConfig, lines 231-240.
VerifyURLs(urls, acc) ==
    IF urls = <<>> THEN [ok |-> TRUE, regexps |-> acc]
    ELSE IF ~Head(urls).ok THEN [ok |-> FALSE, regexps |-> acc]
    ELSE VerifyURLs(Tail(urls), Append(acc, Head(urls).matches))

\* verifyConfig as a whole: the error, and the two rule sets as it leaves them.
verifyConfig(cfg, prefixes, regexps) ==
    LET ips == VerifyIPs(cfg.IgnoreIPs, prefixes) IN
    IF ~ips.ok THEN [ok |-> FALSE, prefixes |-> ips.prefixes, regexps |-> regexps]
    ELSE LET us == VerifyURLs(cfg.IgnoreURLs, regexps) IN
         [ok |-> us.ok, prefixes |-> ips.prefixes, regexps |-> us.regexps]

\* connect, lines 195-205: the configuration errors it reports.
connectConfigError(cfg) ==
    cfg.Host = "" \/ cfg.APIKey = "" \/ cfg.Websites = {}

\* What the health request of connect can return.
ProbeOutcomes == {"ok", "fail"}

\* connect, lines 194-213: the error it returns, "nil" for none.
connect(cfg, probe) ==
    IF connectConfigError(cfg) THEN "config"
    ELSE IF probe = "fail" THEN "health"
    ELSE "nil"

\* New without the assignment of line 140.
NewIsDisabledFromConfig(cfg) == cfg.Disabled

\* New, lines 117 and 139-141: the value of isDisabled when New returns.
NewIsDisabled(cfg) ==
    IF ~cfg.Disabled THEN TRUE ELSE cfg.Disabled

\* New starting retryConnection whatever the configuration says.
NewSupPcAlways(cfg) == "select"

\* New, lines 139-144: retryConnection is started unless the plugin is
\* configured disabled.
NewSupPc(cfg) == IF ~cfg.Disabled THEN "select" ELSE "none"

\* retryConnection going back to the loop head when verifyConfig fails.
retryConnectionBodyRetriesVerify(cfg, probe, disabled, prefixes, regexps) ==
    IF connect(cfg, probe) = "nil"
      THEN LET v == verifyConfig(cfg, prefixes, regexps) IN
           IF v.ok
             THEN [pc |-> "ready", isDisabled |-> FALSE, worker |-> TRUE,
                   connected |-> TRUE, verified |-> TRUE,
                   prefixes |-> v.prefixes, regexps |-> v.regexps]
             ELSE [pc |-> "select", isDisabled |-> TRUE, worker |-> FALSE,
                   connected |-> TRUE, verified |-> FALSE,
                   prefixes |-> v.prefixes, regexps |-> v.regexps]
      ELSE [pc |-> "select", isDisabled |-> disabled, worker |-> FALSE,
            connected |-> FALSE, verified |-> FALSE,
            prefixes |-> prefixes, regexps |-> regexps]

\* retryConnection returning when connect fails.
retryConnectionBodyGivesUp(cfg, probe, disabled, prefixes, regexps) ==
    IF connect(cfg, probe) = "nil"
      THEN LET v == verifyConfig(cfg, prefixes, regexps) IN
           IF v.ok
             THEN [pc |-> "ready", isDisabled |-> FALSE, worker |-> TRUE,
                   connected |-> TRUE, verified |-> TRUE,
                   prefixes |-> v.prefixes, regexps |-> v.regexps]
             ELSE [pc |-> "fatal", isDisabled |-> TRUE, worker |-> FALSE,
                   connected |-> TRUE, verified |-> FALSE,
                   prefixes |-> v.prefixes, regexps |-> v.regexps]
      ELSE [pc |-> "stopped", isDisabled |-> disabled, worker |-> FALSE,
            connected |-> FALSE, verified |-> FALSE,
            prefixes |-> prefixes, regexps |-> regexps]

\* retryConnection, lines 166-186: one connection attempt. Yields where the
\* goroutine goes next, the value of isDisabled, whether the worker is
\* started, and the rule sets as verifyConfig leaves them.
retryConnectionBody(cfg, probe, disabled, prefixes, regexps) ==
    IF connect(cfg, probe) = "nil"
      THEN LET v == verifyConfig(cfg, prefixes, regexps) IN
           IF v.ok
             THEN [pc |-> "ready", isDisabled |-> FALSE, worker |-> TRUE,
                   connected |-> TRUE, verified |-> TRUE,
                   prefixes |-> v.prefixes, regexps |-> v.regexps]
             ELSE [pc |-> "fatal", isDisabled |-> TRUE, worker |-> FALSE,
                   connected |-> TRUE, verified |-> FALSE,
                   prefixes |-> v.prefixes, regexps |-> v.regexps]
      ELSE [pc |-> "select", isDisabled |-> disabled, worker |-> FALSE,
            connected |-> FALSE, verified |-> FALSE,
            prefixes |-> prefixes, regexps |-> regexps]

\* New, lines 113-146.
Init ==
    /\ config \in Configs
    /\ isDisabled = NewIsDisabled(config)
    /\ ignorePrefixes = <<>>
    /\ ignoreRegexps = <<>>
    /\ cancelled = FALSE
    /\ supPc = NewSupPc(config)
    /\ retryAttempt = 0
    /\ currentDelay = Delay(0)
    /\ connected = FALSE
    /\ verified = FALSE
    /\ queue = <<>>
    /\ nextId = 1
    /\ workerPc = "none"
    /\ batch = <<>>
    /\ timer = [armed |-> FALSE, fired |-> FALSE, d |-> 0]
    /\ flushKind = "none"
    /\ flushIdx = 0
    /\ flushes = <<>>
    /\ sendLog = <<>>
    /\ aborted = {}
    /\ faults = 0
    /\ reqs = [r \in 1..MaxReq |-> [pc |-> "new", wrapped |-> FALSE,
                                    host |-> "", calls |-> 0, arg |-> 0,
                                    enq |-> 0]]
    /\ totalWrites = 0
    /\ lastCall = [code |-> 0, forwarded |-> 0, result |-> "none"]
    /\ lastRead = [prefixes |-> <<>>, regexps |-> <<>>]

\* The owning context is cancelled.
Cancel ==
    /\ ~cancelled
    /\ cancelled' = TRUE
    /\ UNCHANGED <<config, isDisabled, ruleVars, supVars, queue, nextId,
                   workerVars, reqVars>>

\* retryConnection, lines 165-170 and 186: the delay elapsed and connect is
\* called. A failed attempt goes back to the loop head, which computes the
\* next delay; after a successful one the goroutine stands before line 171.
retryConnectionAttempt ==
    /\ supPc = "select"
    /\ retryAttempt < MaxAttempts
    /\ retryAttempt' = retryAttempt + 1
    /\ \E probe \in ProbeOutcomes :
         IF connect(config, probe) = "nil"
           THEN /\ supPc' = "connected"
                /\ connected' = TRUE
                /\ UNCHANGED currentDelay
           ELSE /\ supPc' = retryConnectionBody(config, probe, isDisabled,
                                                ignorePrefixes, ignoreRegexps).pc
                /\ currentDelay' = Delay(retryAttempt')
                /\ UNCHANGED connected
    /\ UNCHANGED <<config, isDisabled, ruleVars, cancelled, verified, queue,
                   nextId, workerVars, reqVars>>

\* retryConnection, lines 171-183: connect returned nil; verifyConfig, then
\* either the plugin is enabled and the worker started, or it stays
\* disabled; the goroutine returns.
retryConnectionVerify ==
    /\ supPc = "connected"
    /\ LET o == retryConnectionBody(config, "ok", isDisabled, ignorePrefixes,
                                    ignoreRegexps) IN
         /\ supPc' = o.pc
         /\ isDisabled' = o.isDisabled
         /\ ignorePrefixes' = o.prefixes
         /\ ignoreRegexps' = o.regexps
         /\ verified' = (verified \/ o.verified)
         /\ workerPc' = IF o.worker THEN "spawned" ELSE workerPc
         /\ retryAttempt' = IF o.pc = "select" THEN retryAttempt ELSE 0
         /\ currentDelay' = IF o.pc = "select" THEN Delay(retryAttempt) ELSE 0
    /\ UNCHANGED <<config, cancelled, connected, queue, nextId, batch, timer,
                   flushKind, flushIdx, flushes, sendLog, aborted, faults,
                   reqVars>>

\* retryConnection, lines 187-189.
retryConnectionCancelled ==
    /\ supPc = "select"
    /\ cancelled
    /\ supPc' = "stopped"
    /\ retryAttempt' = 0
    /\ currentDelay' = 0
    /\ UNCHANGED <<config, isDisabled, ruleVars, cancelled, connected, verified,
                   queue, nextId, workerVars, reqVars>>

\* ------------------------------------------------------------ request path

\* The requests the proxy hands to ServeHTTP. host is the domain that
\* parseDomainFromHost yields; hdrIp is the value of the headerIp header and
\* remote is RemoteAddr; ua is the User-Agent, url the request URL and ext
\* the extension of its path.
Requests ==
    [host : Hosts, hdrIp : {NoIp, BadIp, IpOf(0), IpOf(1), IpOf(3)},
     remote : {BadIp, IpOf(1)}, ua : Agents, url : URLs, ext : Exts]

\* netip.Prefix.Contains: the leading bits of ip equal those of the prefix.
PrefixContains(p, a) ==
    LET shift == 2^(AddrBits - p.bits) IN (a \div shift) = (p.addr \div shift)

\* The IP check letting a request through when no address can be parsed.
ipAllowedFailOpen(prefixes, req) ==
    IF Len(prefixes) > 0
      THEN LET requestIp == IF req.hdrIp = NoIp THEN req.remote ELSE req.hdrIp IN
           IF requestIp.kind # "ip" THEN TRUE
           ELSE \A i \in 1..Len(prefixes) : ~PrefixContains(prefixes[i], requestIp.addr)
      ELSE TRUE

\* shouldTrack, lines 263-281: FALSE when the IP check excludes the request.
ipAllowed(prefixes, req) ==
    IF Len(prefixes) > 0
      THEN LET requestIp == IF req.hdrIp = NoIp THEN req.remote ELSE req.hdrIp IN
           IF requestIp.kind # "ip" THEN FALSE
           ELSE \A i \in 1..Len(prefixes) : ~PrefixContains(prefixes[i], requestIp.addr)
      ELSE TRUE

\* shouldTrackResource, lines 321-345.
shouldTrackResource(cfg, ext) ==
    IF cfg.TrackAllResources THEN TRUE
    ELSE IF cfg.TrackExtensions # {} THEN ext \in cfg.TrackExtensions
    ELSE ext \in {"", ".html"}

\* shouldTrack, lines 262-319 (createNewWebsites is never set).
shouldTrack(cfg, prefixes, regexps, req) ==
    /\ ipAllowed(prefixes, req)
    /\ ~(req.ua \in cfg.IgnoreUserAgents)
    /\ \A i \in 1..Len(regexps) : ~(req.url \in regexps[i])
    /\ shouldTrackResource(cfg, req.ext)
    /\ req.host \in cfg.Websites

\* shouldTrackStatus with > for >= at line 349.
shouldTrackStatusAbove(cfg, statusCode) ==
    IF statusCode > 400 THEN cfg.TrackErrors ELSE TRUE

\* shouldTrackStatus, lines 347-357.
shouldTrackStatus(cfg, statusCode) ==
    IF statusCode >= 400 THEN cfg.TrackErrors ELSE TRUE

\* The values a read of isDisabled can return: the field is written by the
\* supervisor and read by the request goroutines without synchronisation,
\* so a read returns the current value or the one New stored.
ObservedDisabled == {isDisabled, TRUE}

\* The values the reads of the rule sets can return. ServeHTTP reads
\* isDisabled (line 254) and then the rule sets (lines 263, 275, 293, 295)
\* with no synchronisation with the goroutine that appended to them (lines
\* 227, 238) and then stored isDisabled (line 176): no append happens before
\* the reads, so they return the slices as they are or as New stored them.
\* (A slice as an append in between left it gives ServeHTTP no outcome
\* beyond these.)
ObservedRules ==
    {[prefixes |-> ignorePrefixes, regexps |-> ignoreRegexps],
     [prefixes |-> <<>>, regexps |-> <<>>]}

\* ServeHTTP, lines 245-260: wraps the writer or not, and calls next once.
\* shouldTrack is called only when the read of isDisabled returned false.
\* Requests are interchangeable, so request r+1 is taken to arrive after r.
ServeHTTP(r) ==
    /\ reqs[r].pc = "new"
    /\ \A q \in 1..(r - 1) : reqs[q].pc # "new"
    /\ \E seen \in ObservedDisabled :
         \E rules \in IF seen THEN {lastRead} ELSE ObservedRules :
           \E o \in IF seen THEN {[wrap |-> FALSE, host |-> ""]}
                     ELSE {[wrap |-> shouldTrack(config, rules.prefixes,
                                                 rules.regexps, req),
                            host |-> req.host] : req \in Requests} :
             /\ reqs' = [reqs EXCEPT ![r] = [@ EXCEPT !.pc = "handling",
                                                       !.wrapped = o.wrap,
                                                       !.host = IF o.wrap THEN o.host ELSE "",
                                                       !.calls = @ + 1, !.arg = r]]
             /\ lastRead' = IF o.wrap THEN rules ELSE lastRead
    /\ UNCHANGED <<config, isDisabled, ruleVars, cancelled, supVars, queue,
                   nextId, workerVars, totalWrites, lastCall>>

\* submitToFeed sending on the channel without the default branch's check.
submitToFeedNoDefault(cfg, q, id, host) ==
    IF ~(host \in cfg.Websites) THEN [queue |-> q, result |-> "unknown"]
    ELSE [queue |-> Append(q, id), result |-> "queued"]

\* submitToFeed, lines 30-56: what it does to the queue. Result "queued",
\* "full" (lines 53-54) or "unknown" (lines 34-37).
submitToFeed(cfg, q, id, host) ==
    IF ~(host \in cfg.Websites) THEN [queue |-> q, result |-> "unknown"]
    ELSE IF Len(q) < cfg.QueueSize THEN [queue |-> Append(q, id), result |-> "queued"]
    ELSE [queue |-> q, result |-> "full"]

\* ResponseWriter.WriteHeader returning early when the event was not queued.
wrapperWriteHeaderEarlyReturn(cfg, q, id, host, code) ==
    LET s == IF shouldTrackStatus(cfg, code)
               THEN submitToFeed(cfg, q, id, host)
               ELSE [queue |-> q, result |-> "status"] IN
    [queue |-> s.queue, result |-> s.result,
     forwarded |-> IF s.result = "queued" THEN code ELSE 0]

\* ResponseWriter.WriteHeader, responsewriter.go lines 22-29: what becomes
\* of the event, the queue afterwards, and the code passed on to the
\* underlying writer (0 for none).
wrapperWriteHeader(cfg, q, id, host, code) ==
    LET s == IF shouldTrackStatus(cfg, code)
               THEN submitToFeed(cfg, q, id, host)
               ELSE [queue |-> q, result |-> "status"] IN
    [queue |-> s.queue, result |-> s.result, forwarded |-> code]

\* The next handler writes the response status: on the wrapper if ServeHTTP
\* handed it one, on the proxy's own writer otherwise.
WriteHeader(r, code) ==
    /\ reqs[r].pc = "handling"
    /\ totalWrites < MaxWrites
    /\ totalWrites' = totalWrites + 1
    /\ LET s == IF reqs[r].wrapped
                  THEN wrapperWriteHeader(config, queue, nextId, reqs[r].host, code)
                  ELSE [queue |-> queue, result |-> "plain", forwarded |-> code] IN
       /\ queue' = s.queue
       /\ nextId' = IF s.result = "queued" THEN nextId + 1 ELSE nextId
       /\ reqs' = [reqs EXCEPT ![r] = [@ EXCEPT
                      !.enq = IF s.result = "queued" THEN @ + 1 ELSE @]]
       /\ lastCall' = [code |-> code, forwarded |-> s.forwarded, result |-> s.result]
    /\ UNCHANGED <<config, isDisabled, ruleVars, cancelled, supVars, workerVars,
                   lastRead>>

\* ----------------------------------------------------------------- worker

\* What sendRequest to /api/track can do: return a response, return an
\* error, or fault.
SendOutcomes == {"ok", "err", "panic"}

\* time.NewTimer(d).
NewTimer(d) == [armed |-> TRUE, fired |-> FALSE, d |-> d]

\* timeout.Reset(d): re-arms the timer. A value already sent on timeout.C
\* stays there (Go before 1.23) or is discarded (Go 1.23 and later).
TimerReset(t, d, keep) == [armed |-> TRUE, fired |-> t.fired /\ keep, d |-> d]

\* umamiEventFeeder, lines 69-76: the function's result. The named result err
\* is assigned nowhere, also not by the deferred recover.
umamiEventFeederResult(panicked) == "nil"

\* startWorker, lines 58-67: runs umamiEventFeeder again on an error,
\* returns otherwise.
startWorker(err) == IF err # "nil" THEN "spawned" ELSE "exited"

\* umamiEventFeeder, lines 78-79.
umamiEventFeederEnter ==
    /\ workerPc = "spawned"
    /\ workerPc' = "select"
    /\ batch' = <<>>
    /\ timer' = NewTimer(batchMaxWait)
    /\ UNCHANGED <<config, isDisabled, ruleVars, cancelled, supVars, queue,
                   nextId, flushKind, flushIdx, flushes, sendLog, aborted, faults,
                   reqVars>>

\* The runtime fires the timer: a value is sent on timeout.C.
TimerFire ==
    /\ timer.armed
    /\ timer' = [timer EXCEPT !.armed = FALSE, !.fired = TRUE]
    /\ UNCHANGED <<config, isDisabled, ruleVars, cancelled, supVars, queue,
                   nextId, workerPc, batch, flushKind, flushIdx, flushes, sendLog,
                   aborted, faults, reqVars>>

\* The call reportEventsToUmami(ctx, batch) of one of the three branches.
BeginFlush(b, kind) ==
    /\ workerPc' = "flush"
    /\ flushKind' = kind
    /\ flushIdx' = 1
    /\ flushes' = Append(flushes, [kind |-> kind, events |-> b])

\* The cancellation branch returning without the flush of lines 86-88.
selectCancelledNoFlush ==
    /\ workerPc = "select"
    /\ cancelled
    /\ workerPc' = "exited"
    /\ UNCHANGED <<config, isDisabled, ruleVars, cancelled, supVars, queue,
                   nextId, batch, timer, flushKind, flushIdx, flushes, sendLog,
                   aborted, faults, reqVars>>

\* umamiEventFeeder, lines 84-89.
selectCancelled ==
    /\ workerPc = "select"
    /\ cancelled
    /\ IF Len(batch) > 0
         THEN BeginFlush(batch, "shutdown")
         ELSE /\ workerPc' = startWorker(umamiEventFeederResult(FALSE))
              /\ UNCHANGED <<flushKind, flushIdx, flushes>>
    /\ UNCHANGED <<config, isDisabled, ruleVars, cancelled, supVars, queue,
                   nextId, batch, timer, sendLog, aborted, faults, reqVars>>

\* The size test of line 93 with > for >=.
batchFullStrict(cfg, b) == Len(b) > cfg.BatchSize

\* The batch is full, line 93.
batchFull(cfg, b) == Len(b) >= cfg.BatchSize

\* umamiEventFeeder, lines 91-97.
selectEvent ==
    /\ workerPc = "select"
    /\ queue # <<>>
    /\ queue' = Tail(queue)
    /\ batch' = Append(batch, Head(queue))
    /\ IF batchFull(config, batch')
         THEN BeginFlush(batch', "size")
         ELSE UNCHANGED <<workerPc, flushKind, flushIdx, flushes>>
    /\ UNCHANGED <<config, isDisabled, ruleVars, cancelled, supVars, nextId,
                   timer, sendLog, aborted, faults, reqVars>>

\* The timer branch re-arming the timer without the flush of lines 100-102.
selectTimeoutNoFlush ==
    /\ workerPc = "select"
    /\ timer.fired
    /\ timer' = TimerReset([timer EXCEPT !.fired = FALSE], batchMaxWait, FALSE)
    /\ UNCHANGED <<config, isDisabled, ruleVars, cancelled, supVars, queue,
                   nextId, workerPc, batch, flushKind, flushIdx, flushes, sendLog,
                   aborted, faults, reqVars>>

\* umamiEventFeeder, lines 99-104.
selectTimeout ==
    /\ workerPc = "select"
    /\ timer.fired
    /\ IF Len(batch) > 0
         THEN /\ BeginFlush(batch, "timer")
              /\ timer' = [timer EXCEPT !.fired = FALSE]
         ELSE /\ timer' = TimerReset([timer EXCEPT !.fired = FALSE], batchMaxWait, FALSE)
              /\ UNCHANGED <<workerPc, flushKind, flushIdx, flushes>>
    /\ UNCHANGED <<config, isDisabled, ruleVars, cancelled, supVars, queue,
                   nextId, batch, sendLog, aborted, faults, reqVars>>

\* The flushing branch going on with the batch it has just reported.
newBatchKeepsEvents(b) == b

\* umamiEventFeeder, lines 95 and 102: after the flush the branch replaces
\* the batch by a new empty slice.
newBatch(b) == <<>>

\* reportEventsToUmami walking the batch from its end.
eventAtFromEnd(events, i) == events[Len(events) + 1 - i]

\* reportEventsToUmami, line 110: the range loop takes the events of the
\* batch in slice order; this is the event of its i-th iteration.
eventAt(events, i) == events[i]

\* reportEventsToUmami without the return of line 115.
sendContinuesAfterError(outcome) == outcome # "panic"

\* reportEventsToUmami, lines 111-116: whether the loop goes on to the next
\* event after a send with this outcome.
sendContinues(outcome) == outcome = "ok"

\* reportEventsToUmami sends one event; when the loop ends, the calling
\* branch of umamiEventFeeder goes on (lines 89, 95-96, 102-104). A panic is
\* recovered at lines 70-76 and umamiEventFeeder returns to startWorker.
sendStep ==
    /\ workerPc = "flush"
    /\ \E outcome \in SendOutcomes, keep \in BOOLEAN :
         /\ sendLog' = Append(sendLog, <<eventAt(batch, flushIdx), outcome>>)
         /\ aborted' = IF outcome = "ok" THEN aborted
                       ELSE aborted \cup {batch[i] : i \in (flushIdx + 1)..Len(batch)}
         /\ faults' = IF outcome = "panic" THEN faults + 1 ELSE faults
         /\ IF outcome = "panic"
              THEN /\ workerPc' = startWorker(umamiEventFeederResult(TRUE))
                   /\ batch' = <<>>
                   /\ flushKind' = "none"
                   /\ flushIdx' = 0
                   /\ UNCHANGED timer
              ELSE IF sendContinues(outcome) /\ flushIdx < Len(batch)
              THEN /\ flushIdx' = flushIdx + 1
                   /\ UNCHANGED <<workerPc, batch, flushKind, timer>>
              ELSE /\ batch' = IF flushKind = "shutdown" THEN <<>> ELSE newBatch(batch)
                   /\ flushKind' = "none"
                   /\ flushIdx' = 0
                   /\ IF flushKind = "shutdown"
                        THEN /\ workerPc' = startWorker(umamiEventFeederResult(FALSE))
                             /\ UNCHANGED timer
                        ELSE /\ workerPc' = "select"
                             /\ timer' = TimerReset(timer, batchMaxWait, keep)
    /\ UNCHANGED <<config, isDisabled, ruleVars, cancelled, supVars, queue,
                   nextId, flushes, reqVars>>

Next ==
    \/ Cancel
    \/ retryConnectionAttempt
    \/ retryConnectionVerify
    \/ retryConnectionCancelled
    \/ \E r \in 1..MaxReq : ServeHTTP(r)
    \/ \E r \in 1..MaxReq, code \in StatusCodes : WriteHeader(r, code)
    \/ umamiEventFeederEnter
    \/ TimerFire
    \/ selectCancelled
    \/ selectEvent
    \/ selectTimeout
    \/ sendStep

Spec == Init /\ [][Next]_vars

\* The retryConnection goroutine is runnable from the return of connect to
\* its own return, and the Go scheduler runs every runnable goroutine.
SupervisorFairSpec == Spec /\ WF_vars(retryConnectionVerify)

\* The worker goroutine is scheduled whenever it can take a step: it enters
\* umamiEventFeeder, its select takes a branch that stays ready (an event in
\* the queue, a value on timeout.C), and a send returns. The runtime fires
\* an armed timer.
WorkerFairSpec ==
    /\ Spec
    /\ WF_vars(umamiEventFeederEnter)
    /\ WF_vars(selectEvent)
    /\ WF_vars(selectTimeout)
    /\ WF_vars(sendStep)
    /\ WF_vars(TimerFire)

\* ----------------------------------------------------------------- claims

\* Event ids accepted by the queue so far.
Accepted == 1..(nextId - 1)
InQueue(id) == \E i \in 1..Len(queue) : queue[i] = id
InBatch(id) == \E i \in 1..Len(batch) : batch[i] = id
Flushed(id) ==
    \E i \in 1..Len(flushes) : \E j \in 1..Len(flushes[i].events) :
        flushes[i].events[j] = id
SendsOf(id) == {i \in 1..Len(sendLog) : sendLog[i][1] = id}
AWrite == totalWrites' = totalWrites + 1
FlushBegins == Len(flushes') = Len(flushes) + 1

\* C1: the queue never holds more than Config.QueueSize events; a
\* WriteHeader that meets a full queue completes, its event is discarded and
\* the queue is left as it was.
C1_QueueBounded ==
    [][/\ Len(queue) <= config.QueueSize
       /\ Len(queue') <= config.QueueSize
       /\ (AWrite /\ Len(queue) = config.QueueSize) =>
             (queue' = queue /\ nextId' = nextId /\ lastCall'.result # "queued")
       /\ (AWrite /\ lastCall'.result = "full") =>
             (Len(queue) = config.QueueSize /\ queue' = queue)]_vars

C1_Witness ==
    lastCall.result = "full" /\ Len(queue) = config.QueueSize /\ config.QueueSize > 1

\* C2: isDisabled is false only after a connect and a verifyConfig of this
\* run returned no error.
C2_EnabledImpliesVerified ==
    isDisabled = FALSE => (connected /\ verified)

C2_Witness == isDisabled = FALSE /\ connected /\ verified

\* C3: the worker calls reportEventsToUmami when the dequeued event brings
\* the batch to BatchSize (before any further dequeue, and the timer is then
\* re-armed with batchMaxWait) or when the timer has fired and the batch is
\* not empty (or, on cancellation, with what it holds); a timer expiry with
\* an empty batch sends nothing and re-arms the timer.
C3_FlushTriggers ==
    [][/\ workerPc' = "select" => Len(batch') < config.BatchSize
       /\ workerPc = "flush" => Len(queue') >= Len(queue)
       /\ FlushBegins =>
            LET f == flushes'[Len(flushes')] IN
            \/ /\ f.kind = "size"
               /\ queue # <<>>
               /\ f.events = Append(batch, Head(queue))
               /\ Len(f.events) = config.BatchSize
            \/ /\ f.kind = "timer"
               /\ timer.fired
               /\ f.events = batch
               /\ batch # <<>>
            \/ /\ f.kind = "shutdown"
               /\ cancelled
               /\ f.events = batch
               /\ batch # <<>>
       /\ (workerPc = "select" /\ timer.fired /\ ~timer'.fired /\ batch = <<>>) =>
            /\ flushes' = flushes
            /\ sendLog' = sendLog
            /\ workerPc' = "select"
            /\ timer'.armed /\ timer'.d = batchMaxWait
       /\ (workerPc = "flush" /\ workerPc' = "select") =>
            /\ batch' = <<>>
            /\ timer'.armed /\ timer'.d = batchMaxWait]_vars

C3_Witness ==
    /\ \E i \in 1..Len(flushes) : flushes[i].kind = "size" /\ Len(flushes[i].events) > 1
    /\ \E i \in 1..Len(flushes) : flushes[i].kind = "timer"

\* C4: when the worker has returned, every event it took from the queue was
\* passed to reportEventsToUmami, and that call ran to its end: each of its
\* events was sent or followed a failed send.
C4_ShutdownFlushes ==
    workerPc = "exited" =>
        \A id \in Accepted :
            /\ InQueue(id) \/ Flushed(id)
            /\ Flushed(id) => (SendsOf(id) # {} \/ id \in aborted)

C4_Witness ==
    /\ workerPc = "exited"
    /\ faults = 0
    /\ \E i \in 1..Len(flushes) :
          flushes[i].kind = "shutdown" /\ Len(flushes[i].events) < config.BatchSize

\* C5: while retryConnection waits before attempt n, the delay is the n-th
\* entry of 0, 30, 60, 120, 240, 480, 960, 1920, 3600, 3600 seconds: 15 * 2^n
\* for 1 <= n < 8 and one hour from n = 8 on.
DelayTable == <<0, 30, 60, 120, 240, 480, 960, 1920, 3600, 3600>>

C5_DelaySequence ==
    supPc = "select" =>
        /\ retryAttempt < Len(DelayTable) => currentDelay = DelayTable[retryAttempt + 1]
        /\ (1 <= retryAttempt /\ retryAttempt < 8) => currentDelay = 15 * 2^retryAttempt
        /\ retryAttempt >= 8 => currentDelay = 3600

C5_Witness == supPc = "select" /\ retryAttempt = 9 /\ currentDelay = 3600

\* C6: with no host, no API key or no websites the supervisor makes one
\* attempt and no retry.
C6_ConfigErrorNoRetry ==
    connectConfigError(config) => retryAttempt <= 1

\* C7: once connect succeeded and verifyConfig failed, the supervisor has
\* returned, makes no further attempt, the worker is not started and
\* isDisabled stays true.
C7_VerifyFailureIsFatal ==
    [][(connected' /\ ~verified' /\ supPc' # "connected") =>
          /\ supPc' = "fatal"
          /\ isDisabled'
          /\ workerPc' = "none"
          /\ (connected /\ ~verified /\ supPc # "connected") =>
                UNCHANGED <<supVars, isDisabled, workerPc>>]_vars

C7_Witness ==
    connected /\ ~verified /\ supPc = "fatal" /\ \E r \in 1..MaxReq : reqs[r].pc = "handling"

\* C8: a panic recovered by umamiEventFeeder does not end the worker: unless
\* the context is cancelled it keeps running.
C8_WorkerSurvivesFault ==
    (faults > 0 /\ ~cancelled) => workerPc # "exited"

\* C9: an event that followed a failed send in its batch is never sent and
\* never back on the queue, no event is sent twice or queued again after it
\* was dequeued, and a failed send alone does not end the worker.
C9_FailedSendDropsRest ==
    /\ \A id \in aborted : SendsOf(id) = {} /\ ~InQueue(id) /\ ~InBatch(id)
    /\ \A id \in Accepted :
          /\ Cardinality(SendsOf(id)) <= 1
          /\ (SendsOf(id) # {} \/ Flushed(id)) => ~InQueue(id)
    /\ workerPc = "exited" => (cancelled \/ faults > 0)

C9_Witness ==
    /\ faults = 0
    /\ \E i \in 1..Len(sendLog) : \E j \in 1..Len(sendLog) :
          /\ i < j
          /\ sendLog[i][2] = "err"
          /\ sendLog[i][1] + 1 \in aborted
          /\ sendLog[j][2] = "ok"

\* C10: next is called once per ServeHTTP, with the request ServeHTTP was
\* given, and every WriteHeader reaches the underlying writer with the code
\* it was called with, whatever the state of tracking.
C10_ResponseUntouched ==
    /\ \A r \in 1..MaxReq :
          /\ reqs[r].pc = "new" => reqs[r].calls = 0
          /\ reqs[r].pc = "handling" => (reqs[r].calls = 1 /\ reqs[r].arg = r)
    /\ lastCall.result # "none" => lastCall.forwarded = lastCall.code

C10_Witness ==
    /\ lastCall.result = "full"
    /\ lastCall.forwarded = lastCall.code
    /\ workerPc = "exited"
    /\ \A r \in 1..MaxReq : reqs[r].calls = 1

\* ---- C11
\* The positions (flush, index) at which the event id was handed to
\* reportEventsToUmami.
FlushPositions(id) ==
    {<<i, j>> \in (1..Len(flushes)) \X (1..MaxBatch + 1) :
        j <= Len(flushes[i].events) /\ flushes[i].events[j] = id}

\* C11: over any sequence of size, timer and shutdown flushes an event taken
\* from the queue is handed to reportEventsToUmami in at most one flush: a
\* flushed event is never back in the queue, and it is in the worker's batch
\* only while that flush is still in progress.
C11_NoDoubleFlush ==
    \A id \in Accepted :
        /\ Cardinality(FlushPositions(id)) <= 1
        /\ Flushed(id) => ~InQueue(id)
        /\ (Flushed(id) /\ InBatch(id)) =>
              /\ workerPc = "flush"
              /\ \E j \in 1..Len(batch) :
                    flushes[Len(flushes)].events[j] = id /\ batch[j] = id

\* Two flushes with different triggers have been completed and the worker is
\* back at its select with an empty batch.
C11_Witness ==
    /\ Len(flushes) >= 2
    /\ flushes[1].kind # flushes[2].kind
    /\ workerPc = "select"
    /\ batch = <<>>

\* ---- C12
\* Event ids are given out in the order in which the queue accepts events,
\* so a sequence of ids is in enqueue order when it is strictly increasing.
InEnqueueOrder(ids) == \A i, j \in 1..Len(ids) : i < j => ids[i] < ids[j]

\* The events handed to reportEventsToUmami so far, flush after flush.
RECURSIVE FlushedUpTo(_)
FlushedUpTo(n) == IF n = 0 THEN <<>> ELSE FlushedUpTo(n - 1) \o flushes[n].events

\* The ids of the sends made so far.
SentIds == [i \in 1..Len(sendLog) |-> sendLog[i][1]]

\* The flushed events, the sent events, and the batch followed by the queue
\* are each in enqueue order.
OrderKept ==
    /\ InEnqueueOrder(FlushedUpTo(Len(flushes)))
    /\ InEnqueueOrder(SentIds)
    /\ InEnqueueOrder(batch \o queue)

\* C12: the events of a flush are the dequeued events in enqueue order and
\* are sent in that order, each send being the next event of the flush in
\* progress; an event the queue accepts while a flush is in progress changes
\* neither the batch being sent nor the recorded flush, waits in the queue
\* behind everything dequeued so far, and so lands in a later batch.
C12_FlushOrder ==
    [][/\ OrderKept'
       /\ Len(sendLog') > Len(sendLog) =>
             /\ workerPc = "flush"
             /\ sendLog'[Len(sendLog')][1] = flushes[Len(flushes)].events[flushIdx]
       /\ (workerPc = "flush" /\ nextId' > nextId) =>
             /\ UNCHANGED <<batch, flushes, flushIdx, workerPc>>
             /\ queue' = Append(queue, nextId)
             /\ ~Flushed(nextId)']_vars

\* The queue holds one event at most, so the flush of two events began with
\* an empty queue: the event now waiting was accepted during this flush,
\* whose first event has been sent.
C12_Witness ==
    /\ config.QueueSize = 1
    /\ workerPc = "flush"
    /\ Len(batch) = 2
    /\ flushIdx = 2
    /\ queue # <<>>
    /\ sendLog # <<>>
    /\ sendLog[Len(sendLog)] = <<batch[1], "ok">>

\* ---- C13
\* C13: once the context is cancelled while retryConnection has not reached
\* Ready (it waits at its select, or connect has returned and lines 171-177
\* are still to run), isDisabled stays true and the worker is not started.
C13_CancelledBeforeReady ==
    [][(cancelled /\ supPc \in {"select", "connected"}) =>
          /\ isDisabled'
          /\ workerPc' = "none"]_vars

\* ---- C14
\* The configuration passes verifyConfig.
ValidConfig == verifyConfig(config, <<>>, <<>>).ok

\* C14: while retryConnection is still trying, tracking is disabled and no
\* worker exists; a failed attempt never ends the goroutine (it leaves its
\* select only for a successful connect, or once the context is cancelled);
\* and, the configuration being valid, a successful connect is followed
\* eventually by isDisabled = false with the worker started.
C14_EventuallyReady ==
    /\ [](supPc = "select" => (isDisabled /\ workerPc = "none"))
    /\ [][(supPc = "select" /\ supPc' # "select") =>
             (supPc' = "connected" \/ cancelled)]_vars
    /\ (supPc = "connected" /\ ValidConfig) ~>
          (supPc = "ready" /\ ~isDisabled /\ workerPc # "none")

\* Two probes have failed and the third has just succeeded: connect has
\* returned nil in the third attempt, nothing is cancelled, tracking is
\* still disabled.
C14_Witness ==
    /\ supPc = "connected"
    /\ retryAttempt = 3
    /\ ValidConfig
    /\ ~cancelled
    /\ isDisabled

\* ---- C15
\* C15: before retryConnection reaches Ready the queue is empty, nothing has
\* been enqueued, no request has been given the wrapping writer and the
\* worker does not exist; the worker is started by the step into Ready only,
\* and so at most once.
C15_NothingBeforeReady ==
    [][/\ supPc' # "ready" =>
             /\ queue' = <<>>
             /\ nextId' = 1
             /\ workerPc' = "none"
             /\ \A r \in 1..MaxReq : ~reqs'[r].wrapped
       /\ workerPc' = "spawned" =>
             \/ workerPc = "spawned"
             \/ workerPc = "none" /\ supPc # "ready" /\ supPc' = "ready"]_vars

\* Requests are served and write their headers while the supervisor is
\* still retrying.
C15_Witness ==
    /\ supPc = "select"
    /\ retryAttempt > 0
    /\ totalWrites >= 2
    /\ \A r \in 1..MaxReq : reqs[r].pc # "new"

\* ---- C16
\* Status codes on both sides of 400, for the status filter taken alone.
SampleCodes == {100, 200, 204, 301, 399, 400, 401, 404, 500, 599}

\* C16: shouldTrackStatus is true for a code below 400 and, for a code of
\* 400 or more, true exactly when trackErrors is set; a WriteHeader on the
\* wrapping writer reaches submitToFeed exactly when the filter says so, so
\* with trackErrors off no WriteHeader with a code of 400 or more enqueues.
C16_StatusFilter ==
    /\ \A code \in SampleCodes \cup StatusCodes :
          shouldTrackStatus(config, code) = (code < 400 \/ config.TrackErrors)
    /\ lastCall.result = "status" => (lastCall.code >= 400 /\ ~config.TrackErrors)
    /\ lastCall.result \in {"queued", "full", "unknown"} =>
          (lastCall.code < 400 \/ config.TrackErrors)

\* With trackErrors off a request that passed the pre-check wrote status 400
\* after a tracked write: the event of the first write is all there is.
C16_Witness ==
    /\ ~config.TrackErrors
    /\ lastCall.code = 400
    /\ lastCall.result = "status"
    /\ nextId = 2

\* ---- C17
\* The strings the IP check can meet in the header and in RemoteAddr: none,
\* one that netip.ParseAddr rejects, or an address.
IpStrings == {NoIp, BadIp} \cup {IpOf(a) : a \in Addrs}

\* The addresses of a prefix, as a range.
PrefixRange(p) ==
    LET size == 2^(AddrBits - p.bits)
        base == p.addr - (p.addr % size)
    IN  base..(base + size - 1)

\* The address c is in at least one of the ignored prefixes.
InIgnoredPrefix(c) ==
    c.kind = "ip" /\ \E i \in 1..Len(ignorePrefixes) : c.addr \in PrefixRange(ignorePrefixes[i])

\* The IP check excludes the request with header value h and RemoteAddr m.
IpExcluded(h, m) == ~ipAllowed(ignorePrefixes, [hdrIp |-> h, remote |-> m])

\* C17 as stated: the IP check excludes a request exactly when the client IP
\* is in at least one ignored prefix, the client IP being the header's
\* value, or RemoteAddr when the header is absent or does not parse.
C17_ExcludedIffContainedWithFallback ==
    \A h \in IpStrings, m \in IpStrings \ {NoIp} :
        IpExcluded(h, m) <=> InIgnoredPrefix(IF h.kind = "ip" THEN h ELSE m)

\* C17 amended: with no ignored prefix nothing is excluded; otherwise the
\* client IP string is the header's value, or RemoteAddr when the header is
\* empty, and the request is excluded exactly when that string does not
\* parse as an address or the address is in at least one ignored prefix.
C17_ExcludedIffContainedOrUnparsable ==
    \A h \in IpStrings, m \in IpStrings \ {NoIp} :
        IpExcluded(h, m) <=>
            /\ Len(ignorePrefixes) > 0
            /\ LET c == IF h = NoIp THEN m ELSE h IN
                 c.kind # "ip" \/ InIgnoredPrefix(c)

\* Both ignored prefixes are in force and a request whose address is in
\* neither has been given the wrapping writer.
C17_Witness ==
    /\ Len(ignorePrefixes) = 2
    /\ ~isDisabled
    /\ \E r \in 1..MaxReq : reqs[r].wrapped

\* ---- C18
\* C18: with disabled = true in the configuration, retryConnection is never
\* started and no connection attempt is made, there is no worker, isDisabled
\* is true, no request is given the wrapping writer (every write goes to the
\* original writer as it is), and the queue stays empty.
C18_DisabledForLife ==
    config.Disabled =>
        /\ supPc = "none"
        /\ retryAttempt = 0
        /\ ~connected
        /\ workerPc = "none"
        /\ isDisabled
        /\ queue = <<>>
        /\ nextId = 1
        /\ \A r \in 1..MaxReq : ~reqs[r].wrapped
        /\ lastCall.result \in {"none", "plain"}
        /\ lastCall.forwarded = lastCall.code

\* The disabled plugin has served every request and forwarded their header
\* writes.
C18_Witness ==
    /\ config.Disabled
    /\ \A r \in 1..MaxReq : reqs[r].pc # "new"
    /\ totalWrites >= 2
    /\ lastCall.result = "plain"

\* ---- C19
\* C19: the duration the worker's timer is created with and reset to is the
\* configured one, Config.BatchMaxWait.
C19_TimerUsesConfiguredWait ==
    workerPc \in {"select", "flush"} => timer.d = config.BatchMaxWait

\* ---- C20
\* C20: whatever sequence of WriteHeader calls a request makes on the
\* wrapping writer, at most one event is enqueued for it.
C20_OneEventPerRequest ==
    \A r \in 1..MaxReq : reqs[r].enq <= 1

\* ---- C21
\* C21: the rule sets are written by verifyConfig only, before isDisabled
\* becomes false, and never after; a call of shouldTrack that lets a request
\* through is made with isDisabled false and has read the rule sets as
\* verifyConfig left them.
C21_RulesReadOnlyWhenRead ==
    [][/\ ruleVars' # ruleVars => (supPc = "connected" /\ isDisabled)
       /\ (\E r \in 1..MaxReq : reqs'[r].wrapped) =>
             /\ ~isDisabled'
             /\ lastRead'.prefixes = ignorePrefixes'
             /\ lastRead'.regexps = ignoreRegexps']_vars

\* ---- C22
\* Some accepted event has not been sent yet.
Pending == \E id \in Accepted : SendsOf(id) = {}

\* Some send has failed (error or panic).
SendFailed == \E i \in 1..Len(sendLog) : sendLog[i][2] # "ok"

\* C22: no event is sent more than once; and unless the context is cancelled
\* or a send fails, every accepted event is eventually sent, whether or not
\* the batch ever fills.
C22_EveryEventSentOnce ==
    /\ [](\A id \in Accepted : Cardinality(SendsOf(id)) <= 1)
    /\ Pending ~> (~Pending \/ cancelled \/ SendFailed)

\* A batch smaller than BatchSize was flushed by the timer and sent; nothing
\* is cancelled, no send has failed and nothing is pending.
C22_Witness ==
    /\ ~cancelled
    /\ ~SendFailed
    /\ ~Pending
    /\ \E i \in 1..Len(flushes) :
          flushes[i].kind = "timer" /\ Len(flushes[i].events) < config.BatchSize
====
